---- MODULE Spec2Model ----
(***************************************************************************)
(* A model of the FHIR query builder: the metadata client                  *)
(* (fetch_searchable_resources, get_search_parameters), the type-selection *)
(* agent, the query-synthesis agent (src/src/agents.py) and the screen of   *)
(* the terminal front end (src/src/fhir_tui.py): connect, type selection,  *)
(* query building, copy and reset, with their worker threads.              *)
(*                                                                         *)
(* Conventions.  A Python value that may be missing (a JSON key that may   *)
(* be absent, an attribute that may be None while the others are objects)  *)
(* is a sequence of length 0 or 1: <<>> is "absent", <<v>> is "present".   *)
(* A str | None is a string, with None the string "None".  Strings are     *)
(* ordered as Python orders them, by code point (CodePoints).  A text the  *)
(* language model writes is a sequence of tokens.                          *)
(***************************************************************************)
EXTENDS Integers, Sequences, FiniteSets, TLC

VARIABLES
    \* ---- the metadata client and the two agents (agents.py)
    capability_statement, \* the JSON body of the last /metadata response
    fetch_raised,         \* what the last fetch raised ("" when it returned)
    fetch_call,           \* the GET requests the last fetch sent and its message
    metadata,             \* the FHIRMetadata object fetch returned
    select_agent,         \* the SelectTypesAgent built on metadata
    select_result,        \* the outcome of the last select_types call
    query_agent,          \* the CreateQueryAgent built last
    ctor_call,            \* the last CreateQueryAgent(...) call and what it raised
    query_result,         \* the outcome of the last agent.run_sync call
    lookup_result,        \* the outcome of the last get_search_parameters call
    \* ---- the front end (fhir_tui.py)
    server,               \* what the FHIR server answers to GET /metadata
    inputs,               \* the Input widgets' values
    app,                  \* FHIRQueryBuilderApp's attributes
    widgets,              \* the buttons' disabled flags, the statuses, the outputs
    connect_worker,       \* the connect worker thread
    workers,              \* select and build worker threads started, not yet run
    callbacks,            \* call_from_thread callbacks not yet run
    history               \* what the session has seen (see NoHistory)

core_vars == <<capability_statement, fetch_raised, fetch_call, metadata,
               select_agent, select_result, query_agent, ctor_call,
               query_result, lookup_result>>
tui_vars == <<server, inputs, app, widgets, connect_worker, workers, callbacks,
              history>>
vars == <<core_vars, tui_vars>>

----------------------------------------------------------------------------
(* Values *)

None == "None"
Absent == <<>>
Has(opt) == opt # <<>>
Val(opt) == opt[1]
Range(s) == {s[i] : i \in DOMAIN s}

\* Sequences over S of length at most n.
SeqUpTo(S, n) == UNION {[1..k -> S] : k \in 0..n}

----------------------------------------------------------------------------
(* Python's str ordering: lexicographic by code point *)

CodePoints(s) ==
    CASE s = "_count" -> <<95, 99, 111, 117, 110, 116>>
      [] s = "_id" -> <<95, 105, 100>>
      [] s = "_sort" -> <<95, 115, 111, 114, 116>>
      [] s = "birthdate" -> <<98, 105, 114, 116, 104, 100, 97, 116, 101>>
      [] s = "name" -> <<110, 97, 109, 101>>
      [] s = "MRN" -> <<77, 82, 78>>
      [] s = "Patient" -> <<80, 97, 116, 105, 101, 110, 116>>
      [] s = "Observation" -> <<79, 98, 115, 101, 114, 118, 97, 116, 105, 111, 110>>
      [] s = "XYZ" -> <<88, 89, 90>>
      [] s = "Patient:link" -> <<80, 97, 116, 105, 101, 110, 116, 58, 108, 105, 110, 107>>
      [] s = "Patient:organization" ->
            <<80, 97, 116, 105, 101, 110, 116, 58, 111, 114, 103, 97, 110, 105,
              122, 97, 116, 105, 111, 110>>
      [] s = "Observation:patient" ->
            <<79, 98, 115, 101, 114, 118, 97, 116, 105, 111, 110, 58, 112, 97,
              116, 105, 101, 110, 116>>
      [] s = "Provenance:target" ->
            <<80, 114, 111, 118, 101, 110, 97, 110, 99, 101, 58, 116, 97, 114,
              103, 101, 116>>
      [] s = "Encounter" -> <<69, 110, 99, 111, 117, 110, 116, 101, 114>>
      [] s = "Condition" -> <<67, 111, 110, 100, 105, 116, 105, 111, 110>>
      [] s = "Procedure" -> <<80, 114, 111, 99, 101, 100, 117, 114, 101>>
      [] s = "Medication" -> <<77, 101, 100, 105, 99, 97, 116, 105, 111, 110>>
      [] s = "MedicationRequest" ->
            <<77, 101, 100, 105, 99, 97, 116, 105, 111, 110, 82, 101, 113,
              117, 101, 115, 116>>
      [] s = "AllergyIntolerance" ->
            <<65, 108, 108, 101, 114, 103, 121, 73, 110, 116, 111, 108,
              101, 114, 97, 110, 99, 101>>
      [] s = "Immunization" ->
            <<73, 109, 109, 117, 110, 105, 122, 97, 116, 105, 111, 110>>
      [] s = "DiagnosticReport" ->
            <<68, 105, 97, 103, 110, 111, 115, 116, 105, 99, 82, 101, 112,
              111, 114, 116>>
      [] s = "Practitioner" ->
            <<80, 114, 97, 99, 116, 105, 116, 105, 111, 110, 101, 114>>
      [] s = "Organization" ->
            <<79, 114, 103, 97, 110, 105, 122, 97, 116, 105, 111, 110>>
      [] s = "CarePlan" -> <<67, 97, 114, 101, 80, 108, 97, 110>>

RECURSIVE SeqLess(_, _)
SeqLess(a, b) ==
    IF b = <<>> THEN FALSE
    ELSE IF a = <<>> THEN TRUE
    ELSE IF Head(a) # Head(b) THEN Head(a) < Head(b)
    ELSE SeqLess(Tail(a), Tail(b))

StrLess(a, b) == SeqLess(CodePoints(a), CodePoints(b))
StrLeq(a, b) == ~StrLess(b, a)

\* list.sort() on a list of str: stable insertion by code-point order.
RECURSIVE InsertStr(_, _)
InsertStr(s, x) ==
    IF s = <<>> THEN <<x>>
    ELSE IF StrLess(x, Head(s)) THEN <<x>> \o s
    ELSE <<Head(s)>> \o InsertStr(Tail(s), x)

RECURSIVE SortStrings(_)
SortStrings(s) ==
    IF s = <<>> THEN <<>>
    ELSE InsertStr(SortStrings(SubSeq(s, 1, Len(s) - 1)), s[Len(s)])

\* list.sort(key=lambda p: p.name): stable, ascending by name.
RECURSIVE InsertParam(_, _)
InsertParam(s, p) ==
    IF s = <<>> THEN <<p>>
    ELSE IF StrLess(p.name, Head(s).name) THEN <<p>> \o s
    ELSE <<Head(s)>> \o InsertParam(Tail(s), p)

RECURSIVE SortByName(_)
SortByName(s) ==
    IF s = <<>> THEN <<>>
    ELSE InsertParam(SortByName(SubSeq(s, 1, Len(s) - 1)), s[Len(s)])

IsSortedStrings(s) == \A i \in 1..(Len(s) - 1) : StrLeq(s[i], s[i + 1])
IsSortedByName(s) == \A i \in 1..(Len(s) - 1) : StrLeq(s[i].name, s[i + 1].name)

----------------------------------------------------------------------------
(* The metadata client: fetch_searchable_resources *)

SEARCH_TYPE == "search-type"
DefaultBaseUrl == "https://r4.smarthealthit.org"

\* The number of positional parameters fetch_searchable_resources declares.
FetchArity == 1

\* requests.get / raise_for_status / response.json(): every failure of the
\* three is a requests.RequestException, re-raised as RequestException.
TransportFailures == {"ConnectionError", "Timeout", "HTTPError", "JSONDecodeError"}

\* next((x for x in rest if x['mode'] == "server"), None): the index of the
\* first server-mode entry, 0 for None; x['mode'] raises KeyError on an entry
\* without the key that is reached before a server-mode entry is found.
RECURSIVE FindServer(_, _)
FindServer(rest, i) ==
    IF i > Len(rest) THEN [raised |-> "", index |-> 0]
    ELSE IF ~Has(rest[i].mode) THEN [raised |-> "KeyError", index |-> 0]
    ELSE IF Val(rest[i].mode) = "server" THEN [raised |-> "", index |-> i]
    ELSE FindServer(rest, i + 1)

\* 'search-type' in interaction_codes
IsSearchableDropped(interaction_codes) == Len(interaction_codes) > 0
IsSearchable(interaction_codes) == SEARCH_TYPE \in Range(interaction_codes)

\* SearchParameter(name=..., type=..., documentation=...) for every searchParam
\* entry: name is a required str, so a missing name fails validation.
ParamsValid(search_param) == \A i \in DOMAIN search_param : search_param[i].name # None

ParseSearchParams(search_param) ==
    [i \in DOMAIN search_param |->
        [name |-> search_param[i].name,
         type |-> search_param[i].type,
         documentation |-> search_param[i].documentation]]

\* The search_params list of a type: every searchParam entry parsed, then
\* search_params.sort(key=lambda p: p.name).
SortedSearchParams_ServerOrder(search_param) == ParseSearchParams(search_param)
SortedSearchParams(search_param) == SortByName(ParseSearchParams(search_param))

\* resource.get(key, [])
GetOrEmpty(opt) == IF Has(opt) THEN Val(opt) ELSE <<>>

\* ResourceMetadata(...): interactions is list[str], a None code fails validation.
NewResourceMetadata(resource, interaction_codes, search_params) ==
    [type |-> resource.type,
     profile |-> resource.profile,
     interactions |-> interaction_codes,
     search_params |-> search_params,
     include_values |-> GetOrEmpty(resource.searchInclude),
     revinclude_values |-> GetOrEmpty(resource.searchRevInclude)]

\* dict[key] = value
DictSet_Reset(d, key, value) == [k \in {key} |-> value]
DictSet(d, key, value) ==
    [k \in (DOMAIN d) \cup {key} |-> IF k = key THEN value ELSE d[k]]

\* The loop over server_capability_metadata['resource'], from entry i on;
\* acc is [raised, searchable_types, resource_metadata].
RECURSIVE ProcessResources(_, _, _)
ProcessResources(resources, i, acc) ==
    IF i > Len(resources) \/ acc.raised # "" THEN acc
    ELSE LET resource == resources[i]
             interaction_codes == resource.interaction
         IN  IF resource.type = None \/ resource.type = ""
               THEN ProcessResources(resources, i + 1, acc)
             ELSE IF ~IsSearchable(interaction_codes)
               THEN ProcessResources(resources, i + 1, acc)
             ELSE IF ~ParamsValid(resource.searchParam)
                     \/ None \in Range(interaction_codes)
               THEN [acc EXCEPT !.raised = "ValidationError"]
             ELSE ProcessResources(resources, i + 1,
                    [raised |-> "",
                     searchable_types |-> Append(acc.searchable_types, resource.type),
                     resource_metadata |->
                        DictSet(acc.resource_metadata, resource.type,
                            NewResourceMetadata(resource, interaction_codes,
                                SortedSearchParams(resource.searchParam)))])

\* What a call of fetch_searchable_resources comes to: the exception raised
\* ("" for none), the value returned, the GET requests sent, and the
\* exception's message where the model keeps it (NoMessage elsewhere).
NoMessage == [text |-> "", url |-> <<>>]
Raise(exc) == [raised |-> exc, value |-> Absent, gets |-> 1, message |-> NoMessage]
Return(v) == [raised |-> "", value |-> <<v>>, gets |-> 1, message |-> NoMessage]

\* metadata_url = f"{base_url}/metadata"
MetadataUrl(base_url) == <<base_url, "/metadata">>

\* The try block around requests.get(metadata_url, timeout=10),
\* raise_for_status() and response.json(): one GET, and on any
\* RequestException a RequestException whose message holds metadata_url.
RequestFailed_Retried(metadata_url) ==
    [raised |-> "RequestException", value |-> Absent, gets |-> 2,
     message |-> [text |-> "Failed to fetch metadata from", url |-> metadata_url]]
RequestFailed(metadata_url) ==
    [raised |-> "RequestException", value |-> Absent, gets |-> 1,
     message |-> [text |-> "Failed to fetch metadata from", url |-> metadata_url]]

\* fetch_searchable_resources(base_url) on the response the server gives:
\* response is [outcome, body], body the parsed JSON when outcome is "ok".
fetch_searchable_resources(base_url, response) ==
    IF response.outcome \in TransportFailures
      THEN RequestFailed(MetadataUrl(base_url))
    ELSE LET cs == response.body IN
    IF ~Has(cs.rest) \/ Len(Val(cs.rest)) = 0 THEN Raise("ValueError")
    ELSE LET rest == Val(cs.rest) IN
    IF ~Has(rest[1].resource) \/ Len(Val(rest[1].resource)) = 0 THEN Raise("ValueError")
    ELSE LET found == FindServer(rest, 1) IN
    IF found.raised # "" THEN Raise(found.raised)
    ELSE IF found.index = 0 THEN Raise("ValueError")
    ELSE LET server_capability_metadata == rest[found.index] IN
    IF ~Has(server_capability_metadata.resource) THEN Raise("KeyError")
    ELSE LET acc == ProcessResources(Val(server_capability_metadata.resource), 1,
                        [raised |-> "", searchable_types |-> <<>>,
                         resource_metadata |-> <<>>])
         IN  IF acc.raised # "" THEN Raise(acc.raised)
             ELSE Return([searchable_types |-> acc.searchable_types,
                          resource_metadata |-> acc.resource_metadata,
                          fhir_version |-> cs.fhirVersion,
                          server_url |-> base_url])

\* A call with the positional arguments args: more than the function declares
\* is a TypeError, raised before the body runs; none takes the default URL.
Call_fetch_searchable_resources(args, response) ==
    IF Len(args) > FetchArity THEN [Raise("TypeError") EXCEPT !.gets = 0]
    ELSE fetch_searchable_resources(
            IF Len(args) = 0 THEN DefaultBaseUrl ELSE args[1], response)

----------------------------------------------------------------------------
(* get_search_parameters *)

\* The 10 of sorted(metadata.searchable_types)[:10].
SampleLimit == 10

\* s[:n]
Take(s, n) == SubSeq(s, 1, IF Len(s) < n THEN Len(s) ELSE n)

\* sorted(metadata.searchable_types)[:10], the names the message joins.
AvailableTypes_CutFirst(searchable_types) ==
    SortStrings(Take(searchable_types, SampleLimit))
AvailableTypes(searchable_types) ==
    Take(SortStrings(searchable_types), SampleLimit)

NoLookupMessage == [text |-> "", resource_type |-> "", available_types |-> <<>>]

\* get_search_parameters(resource_type, metadata): what it raises, the list
\* it returns, and the parts of the ValueError's message.
get_search_parameters(resource_type, md) ==
    IF resource_type \notin DOMAIN md.resource_metadata
      THEN [raised |-> "ValueError", value |-> <<>>,
            message |-> [text |-> "not found in metadata",
                         resource_type |-> resource_type,
                         available_types |-> AvailableTypes(md.searchable_types)]]
    ELSE [raised |-> "", value |-> md.resource_metadata[resource_type].search_params,
          message |-> NoLookupMessage]

----------------------------------------------------------------------------
(* Bounds and the capability statements the server may answer with *)

MaxRest == 2        \* entries of the rest array
MaxResources == 2   \* resource entries of the server-mode rest entry
MaxParams == 2      \* searchParam entries of a resource
MaxIncludes == 2    \* searchInclude / searchRevInclude values of a resource
MaxCandidates == 2  \* candidates in one type-selection output
MaxQueryLen == 2    \* tokens of one synthesized query string
MaxTypes == 12      \* resource entries of a server with many types
MaxPresses == 5     \* presses of Connect, Select and Build in one session of the screen

Types == {"Patient", "Observation"}

\* A resource entry with no search parameters and no include lists.
PlainEntry(t, interaction) ==
    [type |-> t, profile |-> None, interaction |-> interaction,
     searchParam |-> <<>>, searchInclude |-> Absent, searchRevInclude |-> Absent]

InteractionLists ==
    {<<>>, <<"read">>, <<SEARCH_TYPE>>, <<"read", SEARCH_TYPE>>, <<None, SEARCH_TYPE>>}

ResourceEntries ==
    {PlainEntry(t, i) : t \in Types \cup {None}, i \in InteractionLists}

Body(rest) == [rest |-> rest, fhirVersion |-> "4.0.1"]
Ok(body) == [outcome |-> "ok", body |-> body]
ServerRest(resources) == [mode |-> <<"server">>, resource |-> <<resources>>]

\* One server-mode rest entry, every list of resource entries.
ResourceStatements ==
    {Body(<< <<ServerRest(rl)>> >>) : rl \in SeqUpTo(ResourceEntries, MaxResources)}

\* Every shape of the rest array: absent, empty, entries with and without a
\* mode, with and without a resource array.
RestEntries ==
    {[mode |-> m, resource |-> r] :
        m \in {Absent, <<"server">>, <<"client">>},
        r \in {Absent, << <<>> >>,
               << <<PlainEntry("Patient", <<SEARCH_TYPE>>)>> >>,
               << <<PlainEntry("Observation", <<SEARCH_TYPE>>)>> >>}}

StructureStatements ==
    {[rest |-> Absent, fhirVersion |-> None]}
        \cup {Body(<<rest>>) : rest \in SeqUpTo(RestEntries, MaxRest)}

\* The search parameters a server lists for a type; _id is also a common
\* one, and MRN sorts before every lower-case name and every underscore.
ServerParams ==
    {[name |-> "name", type |-> "string", documentation |-> None],
     [name |-> "MRN", type |-> "token", documentation |-> "Medical record number"],
     [name |-> "birthdate", type |-> "date", documentation |-> "The patient's date of birth"],
     [name |-> "_id", type |-> None, documentation |-> "server-defined id"]}

IncludeValues == {"Patient:organization", "Patient:link"}
RevIncludeValues == {"Provenance:target", "Observation:patient"}

\* (searchParam, searchInclude, searchRevInclude) of the Patient entry.
Details ==
    {[searchParam |-> ps, searchInclude |-> Absent, searchRevInclude |-> Absent] :
        ps \in SeqUpTo(ServerParams, MaxParams)}
    \cup {[searchParam |-> <<>>, searchInclude |-> <<inc>>, searchRevInclude |-> Absent] :
            inc \in SeqUpTo(IncludeValues, MaxIncludes)}
    \cup {[searchParam |-> <<>>, searchInclude |-> Absent, searchRevInclude |-> <<rev>>] :
            rev \in SeqUpTo(RevIncludeValues, MaxIncludes)}
    \cup {[searchParam |-> <<[name |-> None, type |-> "string", documentation |-> None]>>,
           searchInclude |-> Absent, searchRevInclude |-> Absent]}

DetailEntry(t, d) ==
    [type |-> t, profile |-> None, interaction |-> <<"read", SEARCH_TYPE>>,
     searchParam |-> d.searchParam, searchInclude |-> d.searchInclude,
     searchRevInclude |-> d.searchRevInclude]

\* A server with a detailed Patient entry and a plain Observation entry.
DetailStatements ==
    {Body(<< <<ServerRest(<<DetailEntry("Patient", d),
                           PlainEntry("Observation", <<SEARCH_TYPE>>)>>)>> >>) :
        d \in Details}

\* The servers the type-selection agent is tried on.
SelectStatements ==
    {Body(<< <<ServerRest(<<PlainEntry("Patient", <<SEARCH_TYPE>>)>>)>> >>),
     Body(<< <<ServerRest(<<PlainEntry("Patient", <<SEARCH_TYPE>>),
                           PlainEntry("Observation", <<SEARCH_TYPE>>)>>)>> >>)}

\* The types of a server with many types, in the order it lists them.
ManyTypeNames ==
    <<"Patient", "Observation", "Encounter", "Condition", "Procedure",
      "Medication", "MedicationRequest", "AllergyIntolerance", "Immunization",
      "DiagnosticReport", "Practitioner", "Organization", "CarePlan">>

Rotate(s, r) == SubSeq(s, r + 1, Len(s)) \o SubSeq(s, 1, r)

\* Servers listing up to MaxTypes searchable types, in every rotation of the order.
ManyTypeStatements ==
    {Body(<< <<ServerRest([i \in 1..n |->
                PlainEntry(Rotate(ManyTypeNames, r)[i], <<"read", SEARCH_TYPE>>)])>> >>) :
        r \in 0..(Len(ManyTypeNames) - 1), n \in 1..MaxTypes}

\* A server that does not answer, or not with JSON.
FailedResponses == {[outcome |-> f, body |-> Absent] : f \in TransportFailures}

\* The servers the metadata client is tried on: every shape of response.
FetchResponses ==
    {Ok(b) : b \in StructureStatements \cup ResourceStatements \cup DetailStatements}
        \cup FailedResponses

\* The servers the query-synthesis agent is tried on.
PipelineResponses == {Ok(b) : b \in DetailStatements} \cup FailedResponses

\* The servers the type-selection agent is tried on.
SelectResponses == {Ok(b) : b \in SelectStatements}

\* The servers get_search_parameters is tried on.
LookupResponses == {Ok(b) : b \in ManyTypeStatements \cup DetailStatements}

----------------------------------------------------------------------------
(* The type-selection agent *)

\* Field(ge=0.0, le=1.0) of SelectedResourceType.confidence, in hundredths.
ConfidenceGe == 0
ConfidenceLe == 100

\* SelectTypesAgent.__init__ / _build_system_prompt: the prompt lists the
\* sorted searchable types and their number.
NewSelectTypesAgent(md) ==
    [types_list |-> SortStrings(md.searchable_types),
     total |-> Len(md.searchable_types)]

\* What the language model may answer: a list of candidates or an error object.
CandidateTypes == Types \cup {"XYZ"}
Confidences == {-1, 0, 95, 100, 101}
Candidates ==
    {[selected_type |-> t, confidence |-> c, reasoning |-> "because"] :
        t \in CandidateTypes, c \in Confidences}
SelectModelOutputs ==
    {[kind |-> "list", candidates |-> cs] : cs \in SeqUpTo(Candidates, MaxCandidates)}
        \cup {[kind |-> "SelectTypeError", candidates |-> <<>>]}

\* The output schema list[SelectedResourceType] | SelectTypeError: every
\* candidate's confidence must lie in [ge, le]; nothing else is constrained.
SelectedResourceTypeValid_NoUpperLimit(c) == c.confidence >= ConfidenceGe
SelectedResourceTypeValid(c) ==
    c.confidence >= ConfidenceGe /\ c.confidence <= ConfidenceLe

SelectOutputValid(out) ==
    out.kind = "SelectTypeError"
        \/ \A i \in DOMAIN out.candidates : SelectedResourceTypeValid(out.candidates[i])

\* select_types(query): result.output of the run, or UnexpectedModelBehavior
\* when the answer does not validate (a retry is one more answer of the model).
select_types(out) ==
    IF SelectOutputValid(out) THEN out
    ELSE [kind |-> "UnexpectedModelBehavior", candidates |-> <<>>]

----------------------------------------------------------------------------
(* The query-synthesis agent *)

\* COMMON_SEARCH_PARAMS, in the order of the source (three of its entries).
COMMON_SEARCH_PARAMS ==
    <<[name |-> "_id", type |-> "token",
       documentation |-> "The logical id of the resource (e.g., _id=123)"],
      [name |-> "_sort", type |-> "string",
       documentation |-> "Comma-separated list of sort rules."],
      [name |-> "_count", type |-> "number",
       documentation |-> "Number of results per page. Example: _count=10"]>>

\* The common_search_params lists a caller may pass.
CommonLists == {SubSeq(COMMON_SEARCH_PARAMS, 1, k) : k \in 0..Len(COMMON_SEARCH_PARAMS)}

\* [p for p in s if p.name not in names]
RECURSIVE NotIn(_, _)
NotIn(s, names) ==
    IF s = <<>> THEN <<>>
    ELSE IF Head(s).name \in names THEN NotIn(Tail(s), names)
    ELSE <<Head(s)>> \o NotIn(Tail(s), names)

\* available_search_params of _build_system_prompt: the type's own entries,
\* then the common entries whose name the type does not list, sorted by name.
MergeSearchParams_Concatenated(search_params, common_search_params) ==
    LET metadata_search_params == {search_params[i].name : i \in DOMAIN search_params}
    IN  search_params \o NotIn(common_search_params, metadata_search_params)
MergeSearchParams_CommonKept(search_params, common_search_params) ==
    LET common_names == {common_search_params[i].name : i \in DOMAIN common_search_params}
    IN  SortByName(NotIn(search_params, common_names) \o common_search_params)
MergeSearchParams(search_params, common_search_params) ==
    LET metadata_search_params == {search_params[i].name : i \in DOMAIN search_params}
    IN  SortByName(search_params \o NotIn(common_search_params, metadata_search_params))

\* CreateQueryAgent(target_type, metadata, common_search_params): what the
\* call raises, the agent it produces and the metadata object afterwards
\* (include_values and revinclude_values are sorted in place); the message
\* of its ValueError names the target type and lists no other type.
CreateQueryAgent_Deferred(target_type, md, common_search_params) ==
    [raised |-> "",
     agent |-> <<[target_type |-> target_type,
                  common_search_params |-> common_search_params,
                  available_search_params |-> <<>>,
                  available_include_values |-> <<>>,
                  available_revinclude_values |-> <<>>]>>,
     metadata |-> md,
     message |-> NoLookupMessage]
CreateQueryAgent(target_type, md, common_search_params) ==
    IF target_type \notin DOMAIN md.resource_metadata
      THEN [raised |-> "ValueError", agent |-> Absent, metadata |-> md,
            message |-> [text |-> "not found in metadata",
                         resource_type |-> target_type,
                         available_types |-> <<>>]]
    ELSE LET target_type_metadata == md.resource_metadata[target_type]
             available_include_values == SortStrings(target_type_metadata.include_values)
             available_revinclude_values == SortStrings(target_type_metadata.revinclude_values)
         IN  [raised |-> "",
              agent |-> <<[target_type |-> target_type,
                           common_search_params |-> common_search_params,
                           available_search_params |->
                               MergeSearchParams(target_type_metadata.search_params,
                                                 common_search_params),
                           available_include_values |-> available_include_values,
                           available_revinclude_values |-> available_revinclude_values]>>,
              metadata |->
                 [md EXCEPT !.resource_metadata[target_type].include_values =
                                available_include_values,
                            !.resource_metadata[target_type].revinclude_values =
                                available_revinclude_values],
              message |-> NoLookupMessage]

\* StringConstraints(min_length=1, strip_whitespace=True) of query_string.
MinLength == 1
WS == " "

RECURSIVE LStrip(_)
LStrip(s) == IF s # <<>> /\ Head(s) = WS THEN LStrip(Tail(s)) ELSE s

RECURSIVE RStrip(_)
RStrip(s) ==
    IF s # <<>> /\ s[Len(s)] = WS THEN RStrip(SubSeq(s, 1, Len(s) - 1)) ELSE s

Strip(s) == RStrip(LStrip(s))

\* The validation of CreateQueryOutput.query_string: whitespace is stripped,
\* then the length is checked; the stripped value is the field's value.
ValidateQueryString_LengthFirst(raw) ==
    [ok |-> Len(raw) >= MinLength, value |-> Strip(raw)]
ValidateQueryString(raw) ==
    LET stripped == Strip(raw)
    IN  [ok |-> Len(stripped) >= MinLength, value |-> stripped]

\* What the language model may answer: a query string or an error object.
QueryTokens == {WS, "name", "_sort", "color", "?"}
QueryModelOutputs ==
    {[kind |-> "CreateQueryOutput", query_string |-> q] :
        q \in SeqUpTo(QueryTokens, MaxQueryLen)}
        \cup {[kind |-> "CreateQueryError", query_string |-> <<>>]}

\* agent.run_sync(query).output against CreateQueryOutput | CreateQueryError.
run_sync(out) ==
    IF out.kind = "CreateQueryError" THEN [kind |-> "CreateQueryError", query_string |-> <<>>]
    ELSE LET v == ValidateQueryString(out.query_string)
         IN  IF v.ok THEN [kind |-> "CreateQueryOutput", query_string |-> v.value]
             ELSE [kind |-> "UnexpectedModelBehavior", query_string |-> <<>>]

\* full_url = f"{self.metadata.server_url}/{selected_type}?{query_string}"
FullUrl(server_url, selected_type, query_string) ==
    <<server_url, "/", selected_type, "?">> \o query_string

----------------------------------------------------------------------------
(* The state machine of the core *)

NoSelectResult == [kind |-> "none", candidates |-> <<>>]
NoQueryResult == [kind |-> "none", query_string |-> <<>>, raw |-> <<>>]
NoFetchCall == [gets |-> 0, message |-> NoMessage]
NoLookupResult ==
    [resource_type |-> "", raised |-> "", value |-> <<>>, message |-> NoLookupMessage]

InitCore ==
    /\ capability_statement = Absent
    /\ fetch_raised = ""
    /\ fetch_call = NoFetchCall
    /\ metadata = Absent
    /\ select_agent = Absent
    /\ select_result = NoSelectResult
    /\ query_agent = Absent
    /\ ctor_call = Absent
    /\ query_result = NoQueryResult
    /\ lookup_result = NoLookupResult

\* metadata = fetch_searchable_resources(), the server answering as it does.
Fetch ==
    LET r == Call_fetch_searchable_resources(<<>>, server)
    IN  /\ capability_statement' =
              IF server.outcome = "ok" THEN <<server.body>> ELSE Absent
        /\ fetch_raised' = r.raised
        /\ fetch_call' = [gets |-> r.gets, message |-> r.message]
        /\ metadata' = r.value
        /\ UNCHANGED <<select_agent, select_result, query_agent, ctor_call,
                       query_result, lookup_result, tui_vars>>

\* select_agent = SelectTypesAgent(metadata)
ConstructSelectAgent ==
    /\ Has(metadata)
    /\ select_agent' = <<NewSelectTypesAgent(Val(metadata))>>
    /\ UNCHANGED <<capability_statement, fetch_raised, fetch_call,
                   metadata, select_result,
                   query_agent, ctor_call, query_result, lookup_result, tui_vars>>

\* select_agent.select_types(query), the model answering with out.
SelectTypes ==
    /\ Has(select_agent)
    /\ \E out \in SelectModelOutputs : select_result' = select_types(out)
    /\ UNCHANGED <<capability_statement, fetch_raised, fetch_call,
                   metadata, select_agent,
                   query_agent, ctor_call, query_result, lookup_result, tui_vars>>

\* query_agent = CreateQueryAgent(target_type, metadata, common_search_params)
ConstructQueryAgent ==
    /\ Has(metadata)
    /\ \E target_type \in Types \cup {"XYZ"}, common \in CommonLists :
          LET r == CreateQueryAgent(target_type, Val(metadata), common)
          IN  /\ ctor_call' = <<[target_type |-> target_type,
                                 common_search_params |-> common,
                                 raised |-> r.raised,
                                 message |-> r.message]>>
              /\ query_agent' = r.agent
              /\ metadata' = <<r.metadata>>
    /\ query_result' = NoQueryResult
    /\ UNCHANGED <<capability_statement, fetch_raised, fetch_call,
                   select_agent,
                   select_result, lookup_result, tui_vars>>

\* query_agent.agent.run_sync(query).output, the model answering with out.
Synthesize ==
    /\ Has(query_agent)
    /\ \E out \in QueryModelOutputs :
          query_result' = [kind |-> run_sync(out).kind,
                           query_string |-> run_sync(out).query_string,
                           raw |-> out.query_string]
    /\ UNCHANGED <<capability_statement, fetch_raised, fetch_call,
                   metadata, select_agent,
                   select_result, query_agent, ctor_call, lookup_result, tui_vars>>

\* get_search_parameters(resource_type, metadata)
GetSearchParameters ==
    /\ Has(metadata)
    /\ \E resource_type \in CandidateTypes :
          LET r == get_search_parameters(resource_type, Val(metadata))
          IN  lookup_result' = [resource_type |-> resource_type,
                                raised |-> r.raised,
                                value |-> r.value,
                                message |-> r.message]
    /\ UNCHANGED <<capability_statement, fetch_raised, fetch_call, metadata,
                   select_agent, select_result, query_agent, ctor_call,
                   query_result, tui_vars>>

----------------------------------------------------------------------------
(* The front end: connecting to a server (fhir_tui.py) *)

PaddedBaseUrl == " https://r4.smarthealthit.org "

\* str.strip() on the values the Input widgets may hold.
StripStr(s) ==
    CASE s = " " -> ""
      [] s = PaddedBaseUrl -> DefaultBaseUrl
      [] OTHER -> s

\* value.strip() or None
StripOrNone(s) == IF StripStr(s) = "" THEN None ELSE StripStr(s)

UrlValues == {"", " ", DefaultBaseUrl, PaddedBaseUrl}
UsernameValues == {"", "alice"}
PasswordValues == {"", "secret"}

\* The servers the front end is pointed at: one answering with a valid
\* CapabilityStatement, one with a body without rest, one not answering.
Servers ==
    {Ok(Body(<< <<ServerRest(<<PlainEntry("Patient", <<"read", SEARCH_TYPE>>)>>)>> >>)),
     Ok([rest |-> Absent, fhirVersion |-> None]),
     [outcome |-> "Timeout", body |-> Absent]}

Status(kind, text) == [kind |-> kind, text |-> text]

\* StatusMessage.clear() and Static.update("").
NoStatus == Status("", "")
NoOutput == [kind |-> "", url |-> <<>>]

\* The #selected-types container: nothing, the TypeOption widgets of a result
\* list (count of them), or the reasoning of a SelectTypeError.
NoChildren == [kind |-> "empty", count |-> 0]

\* What the session has seen, kept beside the program's state to state what
\* the screen shows against what the workers did: the text select_types was
\* called with for the list in selected_types, how the latest completed
\* selection and build ended, what the latest successful build synthesized
\* its query string for, whether the session was reset and nothing started
\* since, and the clipboard.
NoHistory ==
    [selection_query |-> "",
     last_selection |-> "none",
     last_build |-> "none",
     built |-> [for_type |-> "", for_server |-> "", query_string |-> <<>>],
     since_reset |-> "no reset",
     clipboard |-> <<>>,
     presses |-> 0]

\* FHIRQueryBuilderApp.__init__, compose and on_mount.
InitTUI(s) ==
    /\ server = s
    /\ inputs = [server_url |-> DefaultBaseUrl, username |-> "", password |-> "",
                 query |-> ""]
    /\ app = [metadata |-> Absent, select_agent |-> Absent,
              selected_types |-> <<>>, selected_type_index |-> 0,
              last_query_url |-> <<>>, _pending_query |-> "",
              _pending_server_url |-> "", _pending_username |-> None,
              _pending_password |-> None, _pending_selected_type |-> Absent]
    /\ widgets = [connect_disabled |-> FALSE, select_types_disabled |-> TRUE,
                  build_query_disabled |-> TRUE, copy_disabled |-> TRUE,
                  server_status |-> NoStatus, select_status |-> NoStatus,
                  build_status |-> NoStatus, selected_types |-> NoChildren,
                  selection_hint |-> FALSE, query_output |-> NoOutput]
    /\ connect_worker = "idle"
    /\ workers = [select |-> 0, build |-> 0]
    /\ callbacks = <<>>
    /\ history = NoHistory

\* The user types into the server URL, username or password field.
EditInputs ==
    /\ \/ \E v \in UrlValues : inputs' = [inputs EXCEPT !.server_url = v]
       \/ \E v \in UsernameValues : inputs' = [inputs EXCEPT !.username = v]
       \/ \E v \in PasswordValues : inputs' = [inputs EXCEPT !.password = v]
    /\ UNCHANGED <<core_vars, server, app, widgets, connect_worker, workers,
                   callbacks, history>>

\* Connect, Select Resource Types or Build Query is pressed: one more press.
Pressed(h) == [h EXCEPT !.presses = @ + 1]

\* The press starts a worker thread: the first operation since the last
\* reset, if there was one.
Started(h) == [Pressed(h) EXCEPT !.since_reset = "no reset"]

\* if not server_url / if not query: the stripped text is empty.
NoText_Never(text) == FALSE
NoText(text) == text = ""

\* The body of connect_to_server, for the values the three fields hold.
ConnectPressed(url_value, username_value, password_value) ==
    LET server_url == StripStr(url_value)
        username == StripOrNone(username_value)
        password == StripOrNone(password_value)
    IN  IF NoText(server_url)
          THEN /\ widgets' = [widgets EXCEPT !.server_status =
                                 Status("error", "Please enter a server URL")]
               /\ history' = Pressed(history)
               /\ UNCHANGED <<app, connect_worker>>
          ELSE /\ widgets' = [widgets EXCEPT
                                 !.server_status =
                                     Status("loading", "Connecting to FHIR server..."),
                                 !.connect_disabled = TRUE]
               /\ app' = [app EXCEPT !._pending_server_url = server_url,
                                     !._pending_username = username,
                                     !._pending_password = password]
               /\ connect_worker' = "running"
               /\ history' = Started(history)

\* connect_to_server: the Connect button is pressed (a disabled button is not).
connect_to_server ==
    /\ ~widgets.connect_disabled
    /\ history.presses < MaxPresses
    /\ ConnectPressed(inputs.server_url, inputs.username, inputs.password)
    /\ UNCHANGED <<core_vars, server, inputs, workers, callbacks>>

\* self.call_from_thread(handler, ...): the callback and what it is given; the
\* last three fields keep what the worker read when it made its call.
Callback(handler) ==
    [handler |-> handler, metadata |-> Absent, error |-> "",
     results |-> NoSelectResult,
     query_output |-> [kind |-> "none", query_string |-> <<>>],
     query |-> "", for_type |-> "", for_server |-> ""]

\* The arguments of the call in _run_connect_worker.
PendingArgs ==
    <<app._pending_server_url, app._pending_username, app._pending_password>>

\* The body of _run_connect_worker, r being the outcome of its call with
\* (server_url, username, password): the outcome goes to the UI thread.
ConnectWorker(r) ==
    /\ connect_worker = "running"
    /\ callbacks' = Append(callbacks,
            IF r.raised = ""
              THEN [Callback("_handle_connect_success") EXCEPT !.metadata = r.value]
              ELSE [Callback("_handle_connect_error") EXCEPT !.error = r.raised])
    /\ connect_worker' = "idle"
    /\ UNCHANGED <<core_vars, server, inputs, app, widgets, workers, history>>

\* _run_connect_worker: the worker thread calls fetch_searchable_resources with
\* three positional arguments and hands the outcome to the UI thread.
_run_connect_worker ==
    ConnectWorker(Call_fetch_searchable_resources(PendingArgs, server))

\* fetchSearchableResources(baseUrl, credentials?) of the specification: the
\* function _run_connect_worker is written against.  src/src/agents.py holds
\* the one-parameter function only; the credentials change the request, not
\* what is read from the response.
FetchWithCredentials(args, response) == fetch_searchable_resources(args[1], response)

\* _run_connect_worker with the metadata client of the specification.
_run_connect_worker_credentials ==
    ConnectWorker(FetchWithCredentials(PendingArgs, server))

_handle_connect_success(md) ==
    /\ app' = [app EXCEPT !.metadata = <<md>>,
                          !.select_agent = <<NewSelectTypesAgent(md)>>]
    /\ widgets' = [widgets EXCEPT
                      !.server_status = Status("success", "Connected!"),
                      !.connect_disabled = FALSE,
                      !.select_types_disabled = FALSE]
    /\ UNCHANGED history

_handle_connect_error(error) ==
    /\ widgets' = [widgets EXCEPT
                      !.server_status = Status("error", "Connection failed"),
                      !.connect_disabled = FALSE]
    /\ UNCHANGED <<app, history>>

----------------------------------------------------------------------------
(* The front end: type selection, query building, copy and reset *)

\* What the query field may hold: nothing, or a question.
QueryValues == {"", "find labs"}

\* What the server URL field may hold when Connect is pressed in a session.
SessionUrlValues == {"", DefaultBaseUrl}

\* The user sets the server URL field and presses Connect.
connect_to_server_typed ==
    /\ ~widgets.connect_disabled
    /\ history.presses < MaxPresses
    /\ \E v \in SessionUrlValues :
          /\ inputs' = [inputs EXCEPT !.server_url = v]
          /\ ConnectPressed(v, inputs.username, inputs.password)
    /\ UNCHANGED <<core_vars, server, workers, callbacks>>

\* The user types into the query field.
EditQuery ==
    /\ \E v \in QueryValues : inputs' = [inputs EXCEPT !.query = v]
    /\ UNCHANGED <<core_vars, server, app, widgets, connect_worker, workers,
                   callbacks, history>>

\* Worker threads of one kind that run, or wait for their callback: the
\* error callback that follows a result handler's IndexError is the second
\* callback of its worker and is not counted.
RECURSIVE CountCallbacks(_, _)
CountCallbacks(cbs, handlers) ==
    IF cbs = <<>> THEN 0
    ELSE (IF Head(cbs).handler \in handlers /\ Head(cbs).error # "IndexError"
            THEN 1 ELSE 0)
            + CountCallbacks(Tail(cbs), handlers)

SelectHandlers == {"_handle_select_types_result", "_handle_select_types_error"}
BuildHandlers == {"_handle_build_query_result", "_handle_build_query_error"}
ConnectHandlers == {"_handle_connect_success", "_handle_connect_error"}

SelectInFlight == workers.select + CountCallbacks(callbacks, SelectHandlers)
BuildInFlight == workers.build + CountCallbacks(callbacks, BuildHandlers)
ConnectInFlight ==
    (IF connect_worker = "running" THEN 1 ELSE 0)
        + CountCallbacks(callbacks, ConnectHandlers)

\* select_resource_types: the Select Resource Types button is pressed.
select_resource_types ==
    /\ ~widgets.select_types_disabled
    /\ history.presses < MaxPresses
    /\ LET query == StripStr(inputs.query)
       IN  IF NoText(query)
             THEN /\ widgets' = [widgets EXCEPT !.select_status =
                                    Status("error", "Please enter a query")]
                  /\ history' = Pressed(history)
                  /\ UNCHANGED <<app, workers>>
           ELSE IF ~Has(app.select_agent)
             THEN /\ widgets' = [widgets EXCEPT !.select_status =
                                    Status("error", "Please connect to a server first")]
                  /\ history' = Pressed(history)
                  /\ UNCHANGED <<app, workers>>
           ELSE /\ widgets' = [widgets EXCEPT
                                  !.select_status =
                                      Status("loading", "Analyzing query and selecting types..."),
                                  !.select_types_disabled = TRUE]
                /\ app' = [app EXCEPT !._pending_query = query]
                /\ workers' = [workers EXCEPT !.select = @ + 1]
                /\ history' = Started(history)
    /\ UNCHANGED <<core_vars, server, inputs, connect_worker, callbacks>>

\* What the language model answers in a session.
Candidate(t) == [selected_type |-> t, confidence |-> 95, reasoning |-> "because"]

SessionSelectAnswers ==
    {[kind |-> "list", candidates |-> <<Candidate("Patient")>>],
     [kind |-> "list", candidates |-> <<Candidate("Observation"), Candidate("Patient")>>],
     [kind |-> "list", candidates |-> <<>>],
     [kind |-> "list", candidates |-> <<[Candidate("Patient") EXCEPT !.confidence = 101]>>],
     [kind |-> "SelectTypeError", candidates |-> <<>>]}

SessionQueryAnswers ==
    {[kind |-> "CreateQueryOutput", query_string |-> <<"name">>],
     [kind |-> "CreateQueryOutput", query_string |-> <<WS>>],
     [kind |-> "CreateQueryError", query_string |-> <<>>]}

\* _run_select_types_worker: the thread calls
\* self.select_agent.select_types(self._pending_query) and hands the results,
\* or the exception, to the UI thread.
_run_select_types_worker ==
    /\ workers.select > 0
    /\ workers' = [workers EXCEPT !.select = @ - 1]
    /\ \E out \in SessionSelectAnswers :
          LET results == select_types(out)
          IN  callbacks' = Append(callbacks,
                  IF ~Has(app.select_agent) \/ results.kind = "UnexpectedModelBehavior"
                    THEN [Callback("_handle_select_types_error") EXCEPT
                              !.error = results.kind, !.query = app._pending_query]
                    ELSE [Callback("_handle_select_types_result") EXCEPT
                              !.results = results, !.query = app._pending_query])
    /\ UNCHANGED <<core_vars, server, inputs, app, widgets, connect_worker, history>>

\* The fields _handle_select_types_result sets for a list of candidates.
ShownSelection_IndexPastEnd(candidates) ==
    [selected_types |-> candidates, selected_type_index |-> Len(candidates)]
ShownSelection(candidates) ==
    [selected_types |-> candidates, selected_type_index |-> 0]

\* _handle_select_types_result(results).  With an empty list the last
\* statement, results[0], raises IndexError after the rest has run;
\* call_from_thread re-raises it in the worker, whose except clause calls
\* _handle_select_types_error.
_handle_select_types_result(cb) ==
    IF cb.results.kind = "SelectTypeError"
      THEN /\ widgets' = [widgets EXCEPT
                            !.select_types_disabled = FALSE,
                            !.select_status = Status("error", "Error"),
                            !.selected_types = [kind |-> "error", count |-> 0],
                            !.selection_hint = FALSE]
           /\ history' = [history EXCEPT !.last_selection = "SelectTypeError"]
           /\ UNCHANGED app
    ELSE LET candidates == cb.results.candidates
             shown == ShownSelection(candidates)
         IN  /\ app' = [app EXCEPT !.selected_types = shown.selected_types,
                                   !.selected_type_index = shown.selected_type_index]
             /\ widgets' = [widgets EXCEPT
                              !.select_types_disabled = FALSE,
                              !.selected_types =
                                  [kind |-> "options", count |-> Len(candidates)],
                              !.select_status = Status("success", "Found"),
                              !.selection_hint = TRUE,
                              !.build_query_disabled = FALSE,
                              !.build_status =
                                  IF Len(candidates) = 0 THEN @
                                  ELSE Status("success", "Selected")]
             /\ history' = [history EXCEPT !.last_selection = "list",
                                           !.selection_query = cb.query]

\* _handle_select_types_error(error)
_handle_select_types_error(cb) ==
    /\ widgets' = [widgets EXCEPT
                      !.select_status = Status("error", "Type selection failed"),
                      !.select_types_disabled = FALSE]
    /\ history' = [history EXCEPT
                      !.last_selection =
                          IF cb.error = "IndexError" THEN @ ELSE "exception"]
    /\ UNCHANGED app

\* isinstance(app, FHIRQueryBuilderApp) in TypeOption.on_click: self.app is
\* the FhirApp that main() runs, FHIRQueryBuilderApp is a Screen pushed on it.
AppIsQueryBuilder == FALSE

\* if not self.selected_types or index >= len(self.selected_types): return
IndexRefused(selected_types, index) ==
    Len(selected_types) = 0 \/ index >= Len(selected_types)

\* selected_type_index after select_type_at_index(index).
IndexAfterClick(selected_types, selected_type_index, index) ==
    IF IndexRefused(selected_types, index) THEN selected_type_index ELSE index

\* select_type_at_index(index), indices counted from 0.
select_type_at_index(index) ==
    IF IndexRefused(app.selected_types, index)
      THEN UNCHANGED <<app, widgets>>
    ELSE /\ app' = [app EXCEPT !.selected_type_index =
                        IndexAfterClick(app.selected_types, @, index)]
         /\ widgets' = [widgets EXCEPT !.build_status = Status("success", "Selected")]

\* TypeOption.on_click: the user clicks one of the candidates shown.
TypeOption_on_click ==
    /\ widgets.selected_types.kind = "options"
    /\ \E index \in 0..(widgets.selected_types.count - 1) :
          IF AppIsQueryBuilder THEN select_type_at_index(index)
          ELSE UNCHANGED <<app, widgets>>
    /\ UNCHANGED <<core_vars, server, inputs, connect_worker, workers, callbacks,
                   history>>

\* if not self.selected_types
NothingSelected(selected_types) == Len(selected_types) = 0

\* build_query: the Build Query button is pressed.
build_query ==
    /\ ~widgets.build_query_disabled
    /\ history.presses < MaxPresses
    /\ IF NothingSelected(app.selected_types)
         THEN /\ widgets' = [widgets EXCEPT !.build_status =
                                Status("error", "Please select resource types first")]
              /\ history' = Pressed(history)
              /\ UNCHANGED <<app, workers>>
       ELSE IF app.selected_type_index >= Len(app.selected_types)
         THEN \* self.selected_types[self.selected_type_index] raises IndexError
              /\ history' = Pressed(history)
              /\ UNCHANGED <<app, widgets, workers>>
       ELSE LET selected_type == app.selected_types[app.selected_type_index + 1]
            IN  /\ widgets' = [widgets EXCEPT
                                  !.build_status = Status("loading", "Building query"),
                                  !.build_query_disabled = TRUE]
                /\ app' = [app EXCEPT !._pending_query = inputs.query,
                                      !._pending_selected_type = <<selected_type>>]
                /\ workers' = [workers EXCEPT !.build = @ + 1]
                /\ history' = Started(history)
    /\ UNCHANGED <<core_vars, server, inputs, connect_worker, callbacks>>

\* _run_build_query_worker: the thread builds a CreateQueryAgent for
\* self._pending_selected_type on self.metadata (whose include lists the
\* constructor sorts in place), runs it on self._pending_query and hands the
\* output, or the exception, to the UI thread.
_run_build_query_worker ==
    /\ workers.build > 0
    /\ workers' = [workers EXCEPT !.build = @ - 1]
    /\ LET target_type == Val(app._pending_selected_type).selected_type
           r == CreateQueryAgent(target_type, Val(app.metadata), COMMON_SEARCH_PARAMS)
       IN  /\ app' = [app EXCEPT !.metadata = <<r.metadata>>]
           /\ \E out \in SessionQueryAnswers :
                 LET output == run_sync(out)
                     read == [Callback("_handle_build_query_result") EXCEPT
                                 !.query = app._pending_query,
                                 !.for_type = target_type,
                                 !.for_server = Val(app.metadata).server_url]
                 IN  callbacks' = Append(callbacks,
                         IF r.raised # ""
                           THEN [read EXCEPT !.handler = "_handle_build_query_error",
                                             !.error = r.raised]
                         ELSE IF output.kind = "UnexpectedModelBehavior"
                           THEN [read EXCEPT !.handler = "_handle_build_query_error",
                                             !.error = output.kind]
                         ELSE [read EXCEPT !.query_output = output])
    /\ UNCHANGED <<core_vars, server, inputs, widgets, connect_worker, history>>

\* _handle_build_query_result(query_output)
_handle_build_query_result(cb) ==
    IF cb.query_output.kind = "CreateQueryError"
      THEN /\ widgets' = [widgets EXCEPT
                            !.build_query_disabled = FALSE,
                            !.build_status = Status("error", "Query generation failed"),
                            !.query_output = [kind |-> "error", url |-> <<>>]]
           /\ history' = [history EXCEPT !.last_build = "CreateQueryError"]
           /\ UNCHANGED app
    ELSE LET selected_type == Val(app._pending_selected_type)
             full_url == FullUrl(Val(app.metadata).server_url,
                                 selected_type.selected_type,
                                 cb.query_output.query_string)
         IN  /\ app' = [app EXCEPT !.last_query_url = full_url]
             /\ widgets' = [widgets EXCEPT
                              !.build_query_disabled = FALSE,
                              !.query_output = [kind |-> "success", url |-> full_url],
                              !.build_status =
                                  Status("success", "Query generated successfully!"),
                              !.copy_disabled = FALSE]
             /\ history' = [history EXCEPT
                              !.last_build = "CreateQueryOutput",
                              !.built = [for_type |-> cb.for_type,
                                         for_server |-> cb.for_server,
                                         query_string |-> cb.query_output.query_string]]

\* _handle_build_query_error(error)
_handle_build_query_error(cb) ==
    /\ widgets' = [widgets EXCEPT
                      !.build_status = Status("error", "Query building failed"),
                      !.build_query_disabled = FALSE]
    /\ history' = [history EXCEPT !.last_build = "exception"]
    /\ UNCHANGED app

\* s without its i-th element.
RemoveAt(s, i) == SubSeq(s, 1, i - 1) \o SubSeq(s, i + 1, Len(s))

\* The UI thread runs a call_from_thread callback: the callbacks of workers
\* that run side by side arrive in any order.
RunCallback ==
    /\ \E i \in DOMAIN callbacks :
          LET cb == callbacks[i]
          IN  /\ CASE cb.handler = "_handle_connect_success" ->
                        _handle_connect_success(Val(cb.metadata))
                   [] cb.handler = "_handle_connect_error" ->
                        _handle_connect_error(cb.error)
                   [] cb.handler = "_handle_select_types_result" ->
                        _handle_select_types_result(cb)
                   [] cb.handler = "_handle_select_types_error" ->
                        _handle_select_types_error(cb)
                   [] cb.handler = "_handle_build_query_result" ->
                        _handle_build_query_result(cb)
                   [] cb.handler = "_handle_build_query_error" ->
                        _handle_build_query_error(cb)
              /\ callbacks' =
                    IF /\ cb.handler = "_handle_select_types_result"
                       /\ cb.results.kind = "list"
                       /\ Len(cb.results.candidates) = 0
                      THEN [callbacks EXCEPT ![i] =
                               [cb EXCEPT !.handler = "_handle_select_types_error",
                                          !.error = "IndexError"]]
                    ELSE RemoveAt(callbacks, i)
    /\ UNCHANGED <<core_vars, server, inputs, connect_worker, workers>>

\* copy_to_clipboard: the Copy to Clipboard button is pressed.
copy_to_clipboard ==
    /\ ~widgets.copy_disabled
    /\ history' = IF app.last_query_url = <<>> THEN history
                  ELSE [history EXCEPT !.clipboard = app.last_query_url]
    /\ UNCHANGED <<core_vars, server, inputs, app, widgets, connect_worker,
                   workers, callbacks>>

\* action_reset: the r key.
action_reset ==
    /\ inputs' = [inputs EXCEPT !.query = ""]
    /\ widgets' = [widgets EXCEPT
                      !.selected_types = NoChildren,
                      !.query_output = NoOutput,
                      !.server_status = NoStatus,
                      !.select_status = NoStatus,
                      !.build_status = NoStatus,
                      !.selection_hint = FALSE,
                      !.select_types_disabled = TRUE,
                      !.build_query_disabled = TRUE,
                      !.copy_disabled = TRUE]
    /\ app' = [app EXCEPT !.selected_types = <<>>,
                          !.selected_type_index = 0,
                          !.last_query_url = <<>>]
    /\ history' = [history EXCEPT !.since_reset = "reset"]
    /\ UNCHANGED <<core_vars, server, connect_worker, workers, callbacks>>

----------------------------------------------------------------------------
(* Specifications *)

\* One metadata snapshot is fetched, as the tests' module-scoped fixture does.
FetchOnce == metadata = Absent /\ Fetch

\* run_sync keeps no history (no message_history is passed), so the outcome of
\* a call does not depend on earlier calls: one call per constructed agent.
SynthesizeOnce == query_result = NoQueryResult /\ Synthesize

\* The query-construction pipeline: a snapshot is fetched from the server,
\* synthesizers are built on it and run.
Init == InitCore /\ \E s \in PipelineResponses : InitTUI(s)

Next == FetchOnce \/ ConstructQueryAgent \/ SynthesizeOnce

Spec == Init /\ [][Next]_vars

\* The metadata client alone, on every shape of response.
InitFetch == InitCore /\ \E s \in FetchResponses : InitTUI(s)

NextFetch == Fetch

SpecFetch == InitFetch /\ [][NextFetch]_vars

\* The type-selection agent on a fetched snapshot.
InitSelect == InitCore /\ \E s \in SelectResponses : InitTUI(s)

NextSelect == FetchOnce \/ ConstructSelectAgent \/ SelectTypes

SpecSelect == InitSelect /\ [][NextSelect]_vars

\* The front end's connect step against a server.
InitConnect == InitCore /\ \E s \in Servers : InitTUI(s)

NextConnect == EditInputs \/ connect_to_server \/ _run_connect_worker \/ RunCallback

SpecConnect == InitConnect /\ [][NextConnect]_vars

\* A session of the screen against the metadata client of the specification,
\* the one that takes credentials: connect, select types, build, copy, reset.
SessionResponses ==
    {Ok(Body(<< <<ServerRest(<<PlainEntry("Patient", <<"read", SEARCH_TYPE>>),
                               PlainEntry("Observation", <<SEARCH_TYPE>>)>>)>> >>)),
     [outcome |-> "Timeout", body |-> Absent]}

InitSession == InitCore /\ \E s \in SessionResponses : InitTUI(s)

NextSession ==
    \/ connect_to_server_typed
    \/ _run_connect_worker_credentials
    \/ EditQuery
    \/ select_resource_types
    \/ _run_select_types_worker
    \/ TypeOption_on_click
    \/ build_query
    \/ _run_build_query_worker
    \/ RunCallback
    \/ copy_to_clipboard
    \/ action_reset

SpecSession == InitSession /\ [][NextSession]_vars

\* A server that may fail to answer, reached by a direct call of
\* fetch_searchable_resources and through the front end's Connect button.
InitTransport == InitCore /\ \E s \in Servers \cup FailedResponses : InitTUI(s)

NextTransport ==
    Fetch \/ EditInputs \/ connect_to_server \/ _run_connect_worker \/ RunCallback

SpecTransport == InitTransport /\ [][NextTransport]_vars

\* get_search_parameters on the metadata of a server.
InitLookup == InitCore /\ \E s \in LookupResponses : InitTUI(s)

NextLookup == FetchOnce \/ GetSearchParameters

SpecLookup == InitLookup /\ [][NextLookup]_vars

----------------------------------------------------------------------------
(* Claims *)

\* The resource entries of the server-mode rest element (the first one).
ServerModeResources(cs) ==
    LET rest == Val(cs.rest)
        i == CHOOSE i \in DOMAIN rest :
                /\ rest[i].mode = <<"server">>
                /\ \A j \in 1..(i - 1) : rest[j].mode # <<"server">>
    IN  Val(rest[i].resource)

ListsSearchType(entry) ==
    \E k \in DOMAIN entry.interaction : entry.interaction[k] = SEARCH_TYPE

\* C1: when fetch_searchable_resources returns, a type name is in
\* searchable_types, and is a key of resource_metadata, if and only if some
\* resource entry of the server-mode rest element has that non-empty type and
\* lists 'search-type' among its interaction codes.
C1_SearchableExactly ==
    (Has(metadata) /\ Has(capability_statement)) =>
        LET md == Val(metadata)
            resources == ServerModeResources(Val(capability_statement))
        IN  /\ DOMAIN md.resource_metadata = Range(md.searchable_types)
            /\ Range(md.searchable_types) \subseteq Types
            /\ \A t \in Types :
                  t \in Range(md.searchable_types) <=>
                      \E i \in DOMAIN resources :
                          resources[i].type = t /\ ListsSearchType(resources[i])

\* A fetch returned Patient alone from a response that also lists Observation.
C1_Witness ==
    /\ Has(metadata) /\ Has(capability_statement)
    /\ Val(metadata).searchable_types = <<"Patient">>
    /\ \E i \in DOMAIN ServerModeResources(Val(capability_statement)) :
          ServerModeResources(Val(capability_statement))[i].type = "Observation"

NameCount(s, name) == Cardinality({i \in DOMAIN s : s[i].name = name})
Names(s) == {s[i].name : i \in DOMAIN s}

\* C2: in the merged catalog of a CreateQueryAgent, each name of the target
\* type's own search_params appears exactly once, and each common-parameter
\* name absent from the type's own list appears exactly once.
C2_MergedNamesOnce ==
    Has(query_agent) =>
        LET merged == Val(query_agent).available_search_params
            own == Val(metadata).resource_metadata[Val(query_agent).target_type].search_params
            common == Val(ctor_call).common_search_params
        IN  /\ \A n \in Names(own) : NameCount(merged, n) = 1
            /\ \A n \in Names(common) \ Names(own) : NameCount(merged, n) = 1

\* The parameter names a query string refers to.
ReferencedNames(query_string) == Range(query_string) \ {WS}

\* C3: every query_string returned as CreateQueryOutput refers only to
\* parameter names of the merged catalog built for the target type.
C3_OnlyCatalogNames ==
    query_result.kind = "CreateQueryOutput" =>
        ReferencedNames(query_result.query_string)
            \subseteq Names(Val(query_agent).available_search_params)

\* C4: a list returned by select_types holds at least one candidate.
C4_NeverEmptyList ==
    select_result.kind = "list" => Len(select_result.candidates) >= 1

\* C5: every candidate returned by select_types names a member of the
\* searchable_types of the metadata the agent was constructed with.
C5_SelectedTypeIsSearchable ==
    select_result.kind = "list" =>
        \A i \in DOMAIN select_result.candidates :
            select_result.candidates[i].selected_type
                \in Range(Val(metadata).searchable_types)

\* C6: a synthesis call ends in CreateQueryOutput, CreateQueryError or a
\* failed call; every CreateQueryOutput has a non-empty query_string without
\* leading or trailing whitespace, and an empty or whitespace-only model
\* output is never accepted as a query.
C6_QueryStringTrimmedNonEmpty ==
    /\ query_result.kind \in
          {"none", "CreateQueryOutput", "CreateQueryError", "UnexpectedModelBehavior"}
    /\ query_result.kind = "CreateQueryOutput" =>
          /\ Len(query_result.query_string) >= 1
          /\ Head(query_result.query_string) # WS
          /\ query_result.query_string[Len(query_result.query_string)] # WS
          /\ \E i \in DOMAIN query_result.raw : query_result.raw[i] # WS

\* A model output with surrounding whitespace was accepted, stripped.
C6_Witness ==
    /\ query_result.kind = "CreateQueryOutput"
    /\ Len(query_result.raw) > Len(query_result.query_string)

\* C7: a FHIRMetadata snapshot never changes after fetch returned it.
C7_NeverMutated == [][Has(metadata) => metadata' = metadata]_vars

\* C8: connecting with a non-empty server URL to a server that answers with a
\* valid CapabilityStatement ends in the connected state: metadata holds the
\* snapshot, a SelectTypesAgent is bound, Select Resource Types is enabled.
C8_ConnectEndsConnected ==
    (/\ widgets.server_status.text \in {"Connected!", "Connection failed"}
     /\ fetch_searchable_resources(app._pending_server_url, server).raised = "")
        => /\ app.metadata =
                 fetch_searchable_resources(app._pending_server_url, server).value
           /\ Has(app.select_agent)
           /\ ~widgets.select_types_disabled

\* The cases of C9: no rest array or an empty one, no server-mode entry, a
\* server-mode entry without a resource array.
C9Case(cs) ==
    \/ ~Has(cs.rest)
    \/ Val(cs.rest) = <<>>
    \/ \A i \in DOMAIN Val(cs.rest) : Val(cs.rest)[i].mode # <<"server">>
    \/ \E i \in DOMAIN Val(cs.rest) :
          /\ Val(cs.rest)[i].mode = <<"server">>
          /\ \A j \in 1..(i - 1) : Val(cs.rest)[j].mode # <<"server">>
          /\ ~Has(Val(cs.rest)[i].resource)

\* C9: in each of these cases fetch_searchable_resources raises ValueError,
\* and nothing else, and returns no metadata.
C9_SchemaErrorIsValueError ==
    (Has(capability_statement) /\ C9Case(Val(capability_statement)))
        => (fetch_raised = "ValueError" /\ metadata = Absent)

\* C10: constructing a CreateQueryAgent for a type that is not a key of
\* resource_metadata raises ValueError in the constructor: no agent is
\* produced and no synthesis call is made for that type.
C10_AbsentTargetFailsAtConstruction ==
    (Has(ctor_call) /\ Has(metadata)
        /\ Val(ctor_call).target_type \notin DOMAIN Val(metadata).resource_metadata)
        => /\ Val(ctor_call).raised = "ValueError"
           /\ query_agent = Absent
           /\ query_result.kind = "none"

\* A construction for the absent type XYZ was attempted and failed.
C10_Witness ==
    /\ Has(ctor_call) /\ Has(metadata)
    /\ Val(ctor_call).target_type = "XYZ"
    /\ Val(ctor_call).raised = "ValueError"
    /\ query_agent = Absent

----------------------------------------------------------------------------
\* The number of entries of s equal to x.
Occurrences(s, x) == Cardinality({i \in DOMAIN s : s[i] = x})

\* C11: get_search_parameters returns the search_params of
\* resource_metadata[resource_type] when resource_type is a key; otherwise it
\* raises ValueError, its message says 'not found in metadata' and lists at
\* most 10 names: the lexically smallest searchable types, ascending.
C11_LookupReturnsOrLists ==
    (Has(metadata) /\ lookup_result.resource_type # "") =>
        LET md == Val(metadata)
            resource_type == lookup_result.resource_type
            st == md.searchable_types
            listed == lookup_result.message.available_types
        IN  IF resource_type \in DOMAIN md.resource_metadata
              THEN /\ lookup_result.raised = ""
                   /\ lookup_result.value = md.resource_metadata[resource_type].search_params
            ELSE /\ lookup_result.raised = "ValueError"
                 /\ lookup_result.message.text = "not found in metadata"
                 /\ Len(listed) <= 10
                 /\ Len(listed) = Len(st) \/ Len(listed) = 10
                 /\ \A i \in 1..(Len(listed) - 1) : StrLeq(listed[i], listed[i + 1])
                 /\ \A x \in Range(listed) : Occurrences(listed, x) <= Occurrences(st, x)
                 /\ \A x \in Range(st) :
                        Occurrences(listed, x) < Occurrences(st, x) =>
                            \A i \in DOMAIN listed : StrLeq(listed[i], x)

\* A lookup of an absent type on a server with more than 10 types, listed
\* so that the first 10 in its order are not the 10 smallest.
C11_Witness ==
    /\ Has(metadata)
    /\ lookup_result.raised = "ValueError"
    /\ Len(Val(metadata).searchable_types) > 10
    /\ Len(lookup_result.message.available_types) = 10
    /\ \E i \in 1..10 :
          Val(metadata).searchable_types[i]
              \notin Range(lookup_result.message.available_types)

----------------------------------------------------------------------------
\* C12: the not-found error of constructing a CreateQueryAgent for an absent
\* target type lists a sorted sample of at most 10 valid type names, the one
\* the error of get_search_parameters lists.
C12_CtorErrorListsAlternatives ==
    (Has(metadata) /\ Has(ctor_call) /\ Val(ctor_call).raised = "ValueError") =>
        LET listed == Val(ctor_call).message.available_types
            lookup == get_search_parameters(Val(ctor_call).target_type, Val(metadata))
        IN  /\ Val(ctor_call).message.text = "not found in metadata"
            /\ Len(listed) <= 10
            /\ listed = lookup.message.available_types

----------------------------------------------------------------------------
\* Two lists hold the same entries, each as often in one as in the other.
SameEntries(a, b) ==
    /\ Len(a) = Len(b)
    /\ \A x \in Range(a) \cup Range(b) : Occurrences(a, x) = Occurrences(b, x)

\* C13: for every type of the returned metadata, search_params is sorted
\* ascending by name in case-sensitive (code point) order, whatever order and
\* duplicates the server listed, and holds the server's entries, those
\* without a type or a documentation kept with that field unset.
C13_SearchParamsSortedByName ==
    (Has(metadata) /\ Has(capability_statement)) =>
        LET md == Val(metadata)
            resources == ServerModeResources(Val(capability_statement))
        IN  \A t \in DOMAIN md.resource_metadata :
                LET search_params == md.resource_metadata[t].search_params
                IN  /\ \A i \in 1..(Len(search_params) - 1) :
                          StrLeq(search_params[i].name, search_params[i + 1].name)
                    /\ \E i \in DOMAIN resources :
                          /\ resources[i].type = t
                          /\ SameEntries(search_params, resources[i].searchParam)

\* The server listed name (without documentation) before MRN; the metadata
\* holds MRN first, and name still without documentation.
C13_Witness ==
    /\ Has(metadata) /\ Has(capability_statement)
    /\ "Patient" \in DOMAIN Val(metadata).resource_metadata
    /\ LET search_params == Val(metadata).resource_metadata["Patient"].search_params
           resources == ServerModeResources(Val(capability_statement))
       IN  /\ Len(search_params) = 2
           /\ search_params[1].name = "MRN"
           /\ search_params[2] = [name |-> "name", type |-> "string", documentation |-> None]
           /\ \E i \in DOMAIN resources :
                  /\ Len(resources[i].searchParam) = 2
                  /\ resources[i].searchParam[1].name = "name"

----------------------------------------------------------------------------
\* C14: the merged catalog of every constructed CreateQueryAgent is sorted
\* ascending by name, for every target type and every common list, also when
\* the type's own names and the common names interleave.
C14_MergedSortedByName ==
    Has(query_agent) =>
        LET merged == Val(query_agent).available_search_params
        IN  \A i \in 1..(Len(merged) - 1) : StrLeq(merged[i].name, merged[i + 1].name)

\* A catalog that starts and ends with names of the type (MRN, name) and
\* holds the three common names between them.
C14_Witness ==
    /\ Has(query_agent) /\ Has(ctor_call)
    /\ Len(Val(ctor_call).common_search_params) = 3
    /\ LET merged == Val(query_agent).available_search_params
       IN  /\ Len(merged) = 5
           /\ merged[1].name = "MRN"
           /\ merged[5].name = "name"

\* C15: when a name is both in the target type's own search_params and in
\* the common list, the catalog keeps the type's entry (its type and
\* documentation) and drops the common one; the common list passed to the
\* constructor is not changed.
C15_TypeSpecificWins ==
    (Has(query_agent) /\ Has(ctor_call) /\ Has(metadata)) =>
        LET agent == Val(query_agent)
            merged == agent.available_search_params
            common == Val(ctor_call).common_search_params
            own == Val(metadata).resource_metadata[agent.target_type].search_params
        IN  /\ agent.common_search_params = common
            /\ \A i \in DOMAIN merged :
                  merged[i].name \in Names(own) \cap Names(common) =>
                      /\ merged[i] \in Range(own)
                      /\ merged[i] \notin Range(common)
            /\ Names(own) \subseteq Names(merged)

\* The server lists _id without a type; the catalog of an agent given the
\* common _id (type token) holds the server's entry.
C15_Witness ==
    /\ Has(query_agent) /\ Has(ctor_call)
    /\ \E i \in DOMAIN Val(ctor_call).common_search_params :
          Val(ctor_call).common_search_params[i].name = "_id"
    /\ \E i \in DOMAIN Val(query_agent).available_search_params :
          Val(query_agent).available_search_params[i] =
              [name |-> "_id", type |-> None, documentation |-> "server-defined id"]

----------------------------------------------------------------------------
\* C16: in the metadata fetch returns, before any CreateQueryAgent is
\* constructed, include_values and revinclude_values of every type are
\* sorted ascending, and empty when the server lists none.
C16_IncludesSortedAtFetch ==
    (Has(metadata) /\ Has(capability_statement) /\ ~Has(ctor_call)) =>
        LET md == Val(metadata)
            resources == ServerModeResources(Val(capability_statement))
        IN  \A t \in DOMAIN md.resource_metadata :
                LET include_values == md.resource_metadata[t].include_values
                    revinclude_values == md.resource_metadata[t].revinclude_values
                IN  /\ \A i \in 1..(Len(include_values) - 1) :
                          StrLeq(include_values[i], include_values[i + 1])
                    /\ \A i \in 1..(Len(revinclude_values) - 1) :
                          StrLeq(revinclude_values[i], revinclude_values[i + 1])
                    /\ \E i \in DOMAIN resources :
                          /\ resources[i].type = t
                          /\ ~Has(resources[i].searchInclude) => include_values = <<>>
                          /\ ~Has(resources[i].searchRevInclude) => revinclude_values = <<>>

----------------------------------------------------------------------------
\* The entries of the server-mode resource list that make type t searchable.
SearchableEntries(resources, t) ==
    {i \in DOMAIN resources : resources[i].type = t /\ ListsSearchType(resources[i])}

\* C17 as stated: in every metadata fetch returns, searchable_types and the
\* keys of resource_metadata are the same collection: every listed type is a
\* key, every key is listed, no type is listed twice, and
\* resource_metadata[k].type = k.
C17_SameCollection ==
    Has(metadata) =>
        LET md == Val(metadata)
        IN  /\ Range(md.searchable_types) = DOMAIN md.resource_metadata
            /\ \A t \in Range(md.searchable_types) : Occurrences(md.searchable_types, t) = 1
            /\ \A k \in DOMAIN md.resource_metadata : md.resource_metadata[k].type = k

\* C17 amended: every listed type is a key, every key is listed,
\* resource_metadata[k].type = k, and a type is listed once for each entry of
\* the server-mode resource list that makes it searchable: no type is listed
\* twice when the server lists no searchable type twice.
C17_SameCollectionPerEntry ==
    (Has(metadata) /\ Has(capability_statement)) =>
        LET md == Val(metadata)
            resources == ServerModeResources(Val(capability_statement))
        IN  /\ Range(md.searchable_types) = DOMAIN md.resource_metadata
            /\ \A k \in DOMAIN md.resource_metadata : md.resource_metadata[k].type = k
            /\ \A t \in Range(md.searchable_types) :
                  Occurrences(md.searchable_types, t) =
                      Cardinality(SearchableEntries(resources, t))

\* A fetch returned two types from a server that lists each of them once.
C17_Witness ==
    /\ Has(metadata) /\ Has(capability_statement)
    /\ Len(Val(metadata).searchable_types) = 2
    /\ DOMAIN Val(metadata).resource_metadata = {"Patient", "Observation"}
    /\ \A t \in {"Patient", "Observation"} :
          Cardinality(SearchableEntries(
              ServerModeResources(Val(capability_statement)), t)) = 1

----------------------------------------------------------------------------
\* C18: every candidate select_types returns has a confidence between 0.0
\* and 1.0 (0 and 100 hundredths), both included; an answer holding a
\* candidate below 0 or above 1 is rejected and never returned.
C18_ConfidenceInRange ==
    select_result.kind = "list" =>
        \A i \in DOMAIN select_result.candidates :
            /\ select_result.candidates[i].confidence >= 0
            /\ select_result.candidates[i].confidence <= 100

\* A returned list holding a candidate at each end of the range.
C18_Witness ==
    /\ select_result.kind = "list"
    /\ \E i, j \in DOMAIN select_result.candidates :
          /\ select_result.candidates[i].confidence = 0
          /\ select_result.candidates[j].confidence = 100

----------------------------------------------------------------------------
\* C19: an accepted query_string never starts with '?', so the URL the front
\* end builds, server_url + '/' + type + '?' + query_string, has the fragment
\* right after a single '?'.
C19_QueryStringIsBareFragment ==
    (query_result.kind = "CreateQueryOutput" /\ Has(query_agent) /\ Has(metadata)) =>
        LET url == FullUrl(Val(metadata).server_url, Val(query_agent).target_type,
                           query_result.query_string)
        IN  /\ Head(query_result.query_string) # "?"
            /\ url[4] = "?"
            /\ url[5] # "?"

----------------------------------------------------------------------------
\* C20: when the metadata GET cannot complete (connection failure, timeout,
\* HTTP error status, a body that is not JSON), fetch_searchable_resources
\* raises RequestException with a message that names the metadata URL, after
\* one GET and no retry, and returns no metadata; in the front end the
\* connect attempt ends with a 'Connection failed' status, the Connect button
\* enabled again and the app's metadata as it was.
C20_TransportFailureSurfaced ==
    /\ [](server.outcome \in {"ConnectionError", "Timeout", "HTTPError", "JSONDecodeError"} =>
            (fetch_call.gets > 0 =>
                /\ fetch_raised = "RequestException"
                /\ fetch_call.gets = 1
                /\ fetch_call.message.text = "Failed to fetch metadata from"
                /\ fetch_call.message.url = <<DefaultBaseUrl, "/metadata">>
                /\ metadata = Absent))
    /\ [][(/\ server.outcome \in {"ConnectionError", "Timeout", "HTTPError", "JSONDecodeError"}
           /\ callbacks # <<>>
           /\ callbacks' = Tail(callbacks)) =>
              /\ widgets'.server_status = Status("error", "Connection failed")
              /\ ~widgets'.connect_disabled
              /\ app'.metadata = app.metadata]_vars

\* The server timed out: a direct fetch raised RequestException, and a
\* connect attempt of the front end ended.
C20_Witness ==
    /\ server.outcome = "Timeout"
    /\ fetch_raised = "RequestException"
    /\ widgets.server_status.text = "Connection failed"
    /\ ~widgets.connect_disabled
    /\ callbacks = <<>>


\* The case of C29: the rest array has a server-mode entry with a non-empty
\* resource array whose entries name a type, code their interactions and list
\* no search parameters or includes (nothing else in them can fail).
C29WellFormed(entry) ==
    /\ entry = PlainEntry(entry.type, entry.interaction)
    /\ entry.type # None
    /\ \A n \in DOMAIN entry.interaction : entry.interaction[n] # None

C29Entries(cs) ==
    {i \in DOMAIN Val(cs.rest) :
        /\ Val(cs.rest)[i].mode = <<"server">>
        /\ Has(Val(cs.rest)[i].resource)
        /\ Val(Val(cs.rest)[i].resource) # <<>>
        /\ \A k \in DOMAIN Val(Val(cs.rest)[i].resource) :
              C29WellFormed(Val(Val(cs.rest)[i].resource)[k])}

C29Case(cs) == Has(cs.rest) /\ C29Entries(cs) # {}

\* The searchable types of the first such entry.
C29Types(cs) ==
    LET rest == Val(cs.rest)
        i == CHOOSE i \in C29Entries(cs) : \A j \in C29Entries(cs) : i <= j
        resources == Val(rest[i].resource)
    IN  {resources[k].type : k \in {k \in DOMAIN resources : ListsSearchType(resources[k])}}

\* C29: fetch_searchable_resources accepts every capability statement whose
\* rest array has a server-mode entry with a resource array, wherever that
\* entry stands and whatever the other entries hold, and reads the resources
\* from that entry only.
C29_AcceptsServerEntryAnywhere ==
    (Has(capability_statement) /\ C29Case(Val(capability_statement)))
        => /\ fetch_raised = ""
           /\ Has(metadata)
           /\ {Val(metadata).searchable_types[k] :
                  k \in DOMAIN Val(metadata).searchable_types}
                = C29Types(Val(capability_statement))


ValidIndex(selected_types, index) == 0 <= index /\ index < Len(selected_types)

====
